---- MODULE Spec2Model ----
(***************************************************************************)
(* kornia/geometry/epipolar/fundamental.py: the polynomial solvers, the    *)
(* transformation normalizer and the control skeleton of the 7-point and   *)
(* 8-point estimators and of their dispatch entry point.                   *)
(*                                                                         *)
(* Tensors of reals are modelled exactly: a real is a rational <<n, d>>,   *)
(* an element of a quadratic field, one of the IEEE specials (inf, nan)    *)
(* or an uninterpreted term over exact rationals where the code calls a    *)
(* transcendental (acos, cos, a cube root that is not rational).           *)
(* Floating-point rounding is not modelled.                                *)
(***************************************************************************)
EXTENDS Integers, Sequences, FiniteSets, TLC

(* ------------------------------ bounds -------------------------------- *)

\* coefficients of a polynomial handed to a solver alone: -MaxCoef..MaxCoef
MaxCoef == 3
\* longest batch of polynomials handed to a solver
MaxBatch == 2
\* integer entries of a matrix handed to normalize_transformation
MaxEntry == 2
\* largest batch size B and largest point count N of a point set
MaxB == 3
MaxN == 8

(* --------------------------- exact rationals --------------------------- *)

Abs(x) == IF x < 0 THEN -x ELSE x

Sign(x) == IF x < 0 THEN -1 ELSE IF x = 0 THEN 0 ELSE 1

RECURSIVE GCD(_, _)
GCD(a, b) == IF b = 0 THEN a ELSE GCD(b, a % b)

\* the rational n/d in lowest terms with a positive denominator (d # 0)
Rat(n, d) ==
  LET g == GCD(Abs(n), Abs(d))
      s == IF d < 0 THEN -1 ELSE 1
  IN  <<(s * n) \div g, (s * d) \div g>>

RInt(n) == <<n, 1>>

RNeg(x) == <<-x[1], x[2]>>

RAbs(x) == <<Abs(x[1]), x[2]>>

RAdd(x, y) ==
  LET g == GCD(x[2], y[2])
  IN  Rat(x[1] * (y[2] \div g) + y[1] * (x[2] \div g), (x[2] \div g) * y[2])

RSub(x, y) == RAdd(x, RNeg(y))

RMul(x, y) ==
  LET g1 == GCD(Abs(x[1]), y[2])
      g2 == GCD(Abs(y[1]), x[2])
      h1 == IF g1 = 0 THEN 1 ELSE g1
      h2 == IF g2 = 0 THEN 1 ELSE g2
  IN  Rat((x[1] \div h1) * (y[1] \div h2), (x[2] \div h2) * (y[2] \div h1))

\* y # 0
RDiv(x, y) == RMul(x, IF y[1] < 0 THEN <<-y[2], -y[1]>> ELSE <<y[2], y[1]>>)

RSign(x) == Sign(x[1])

RLt(x, y) == RSign(RSub(x, y)) < 0

RLe(x, y) == RSign(RSub(x, y)) <= 0

(* ------------------------------ values --------------------------------- *)
(* What a slot of a result tensor holds:                                   *)
(*   <<"q", p, s, m, q>>  the real (p + s*sqrt(m))/q, m squarefree > 1 or  *)
(*                        s = m = 0 (a rational), q > 0, in lowest terms   *)
(*   <<"inf", sg>>        +infinity (sg = 1) or -infinity (sg = -1)        *)
(*   <<"nan">>            not a number                                     *)
(*   <<"cbrt", x, t>>     x^(1/3) - t for rationals x > 0, t (irrational)  *)
(*   <<"trig", k, Q, R, t>>   2*sqrt(-Q)*cos((acos(R/sqrt(-Q^3))+2k*pi)/3)-t *)
(*   <<"cardano", Q, R, D, t>>  A + B - t of Cardano's formula             *)
(***************************************************************************)

NaN == <<"nan">>

Inf(sg) == <<"inf", sg>>

\* (p + s*sqrt(m))/q in normal form (q # 0, m >= 0 squarefree or 0 or 1)
Surd(p, s, m, q) ==
  LET s1 == IF m = 0 THEN 0 ELSE s
      p2 == IF m = 1 THEN p + s1 ELSE p
      s2 == IF m = 1 THEN 0 ELSE s1
      m2 == IF s2 = 0 THEN 0 ELSE m
      sg == IF q < 0 THEN -1 ELSE 1
      g  == GCD(GCD(Abs(p2), Abs(s2)), Abs(q))
  IN  <<"q", (sg * p2) \div g, (sg * s2) \div g, m2, (sg * q) \div g>>

ValOfRat(x) == Surd(x[1], 0, 0, x[2])

ValOfInt(n) == Surd(n, 0, 0, 1)

Zero == ValOfInt(0)

One == ValOfInt(1)

\* the largest k with k*k dividing n (n >= 1)
SquarePart(n) ==
  CHOOSE k \in 1..n :
    /\ n % (k * k) = 0
    /\ \A j \in (k + 1)..n : j * j > n \/ n % (j * j) # 0

\* sign of the real (p + s*sqrt(m))/q
SurdSign(v) ==
  LET p == v[2]
      s == v[3]
      m == v[4]
  IN  IF s = 0 THEN Sign(p)
      ELSE IF p = 0 THEN Sign(s)
      ELSE IF Sign(p) = Sign(s) THEN Sign(p)
      ELSE IF p * p > s * s * m THEN Sign(p) ELSE Sign(s)

\* torch.sqrt of the integer n
VSqrtInt(n) ==
  IF n < 0 THEN NaN
  ELSE IF n = 0 THEN Zero
  ELSE LET k == SquarePart(n) IN Surd(0, k, n \div (k * k), 1)

VNeg(v) ==
  IF v[1] = "q" THEN Surd(-v[2], -v[3], v[4], v[5])
  ELSE IF v[1] = "inf" THEN Inf(-v[2])
  ELSE NaN

\* v + w for a rational v and a value w of the quadratic field (or a special)
VAdd(v, w) ==
  IF v[1] = "nan" \/ w[1] = "nan" THEN NaN
  ELSE IF v[1] = "inf" /\ w[1] = "inf" THEN (IF v[2] = w[2] THEN v ELSE NaN)
  ELSE IF v[1] = "inf" THEN v
  ELSE IF w[1] = "inf" THEN w
  ELSE LET m == IF v[3] # 0 THEN v[4] ELSE w[4]
       IN  Surd(v[2] * w[5] + w[2] * v[5], v[3] * w[5] + w[3] * v[5], m,
                v[5] * w[5])

\* v * w where w is rational or infinite
VMul(v, w) ==
  IF v[1] = "nan" \/ w[1] = "nan" THEN NaN
  ELSE IF w[1] = "inf" THEN
         (IF v[1] = "inf" THEN Inf(v[2] * w[2])
          ELSE IF SurdSign(v) = 0 THEN NaN ELSE Inf(SurdSign(v) * w[2]))
  ELSE IF v[1] = "inf" THEN
         (IF SurdSign(w) = 0 THEN NaN ELSE Inf(v[2] * SurdSign(w)))
  ELSE Surd(v[2] * w[2], v[3] * w[2], v[4], v[5] * w[5])

\* x / n for a rational x and an integer n, as IEEE division does it
VDivInt(x, n) ==
  IF n = 0 THEN (IF x[1] = 0 THEN NaN ELSE Inf(Sign(x[1])))
  ELSE ValOfRat(RDiv(x, RInt(n)))

(* --------------------------- tensor helpers ---------------------------- *)

\* x[mask]: the elements of xs at the positions where mask holds, in order
RECURSIVE Compress(_, _)
Compress(xs, mask) ==
  IF xs = <<>> THEN <<>>
  ELSE (IF Head(mask) THEN <<Head(xs)>> ELSE <<>>)
       \o Compress(Tail(xs), Tail(mask))

Count(mask) == Cardinality({j \in 1..Len(mask) : mask[j]})

\* the position of full-batch row i among the rows a mask selects
Rank(mask, i) == Cardinality({j \in 1..i : mask[j]})

MaskNot(mask) == [i \in 1..Len(mask) |-> ~mask[i]]

MaskAny(mask) == \E i \in 1..Len(mask) : mask[i]

\* whether torch accepts x[mask] = vals: one value per selected row, or a
\* single value that broadcasts
ScatterFits(mask, vals) == Len(vals) = Count(mask) \/ Len(vals) = 1

\* x[mask] = vals on a 1-D tensor
Scatter(xs, mask, vals) ==
  [i \in 1..Len(xs) |->
     IF mask[i] THEN (IF Len(vals) = 1 THEN vals[1] ELSE vals[Rank(mask, i)])
     ELSE xs[i]]

\* solutions[mask, 0:w] = rows, w the width of the rows
AssignRowsFirst(sol, mask, rows) ==
  [i \in 1..Len(sol) |->
     IF mask[i]
     THEN [k \in 1..Len(sol[i]) |->
             IF k <= Len(rows[1]) THEN rows[1][k] ELSE sol[i][k]]
     ELSE sol[i]]
AssignRows(sol, mask, rows) ==
  [i \in 1..Len(sol) |->
     IF mask[i]
     THEN LET row == IF Len(rows) = 1 THEN rows[1] ELSE rows[Rank(mask, i)]
          IN  [k \in 1..Len(sol[i]) |->
                 IF k <= Len(row) THEN row[k] ELSE sol[i][k]]
     ELSE sol[i]]

(* --------------------------- solve_quadratic --------------------------- *)

\* delta = b * b - 4 * a * c of one batch element <<a, b, c>>
QuadDelta(e) == e[2] * e[2] - 4 * e[1] * e[3]

\* mask = ~mask_negative & ~mask_zero
QuadMaskZeroIsRoot(delta) == ~(delta < 0)
QuadMask(delta) == ~(delta < 0) /\ ~(delta = 0)

\* inv_2a = 0.5 / a
QuadInv2a(e) == VDivInt(<<1, 2>>, e[1])

\* (-b + sqrt_delta) * inv_2a and (-b - sqrt_delta) * inv_2a
QuadRootsSwapped(e) ==
  LET sqrt_delta == VSqrtInt(QuadDelta(e))
  IN  <<VMul(VAdd(ValOfInt(-e[2]), VNeg(sqrt_delta)), QuadInv2a(e)),
        VMul(VAdd(ValOfInt(-e[2]), sqrt_delta), QuadInv2a(e))>>
QuadRoots(e) ==
  LET sqrt_delta == VSqrtInt(QuadDelta(e))
  IN  <<VMul(VAdd(ValOfInt(-e[2]), sqrt_delta), QuadInv2a(e)),
        VMul(VAdd(ValOfInt(-e[2]), VNeg(sqrt_delta)), QuadInv2a(e))>>

\* solve_quadratic(coeffs): coeffs a batch of <<a, b, c>>
SolveQuadratic(cs) ==
  LET delta         == [i \in 1..Len(cs) |-> QuadDelta(cs[i])]
      mask_negative == [i \in 1..Len(cs) |-> delta[i] < 0]
      zeros         == [i \in 1..Len(cs) |-> <<Zero, Zero>>]
      s1            == IF MaskAny(mask_negative)
                       THEN AssignRows(zeros, mask_negative, <<<<Zero, Zero>>>>)
                       ELSE zeros
      mask          == [i \in 1..Len(cs) |-> QuadMask(delta[i])]
      roots         == [i \in 1..Len(cs) |-> QuadRoots(cs[i])]
  IN  IF MaskAny(mask) THEN AssignRows(s1, mask, Compress(roots, mask)) ELSE s1

(* ----------------------------- solve_cubic ----------------------------- *)
(* coeffs is a batch of <<a, b, c, d>>.  The a = 0 masks are full-batch;   *)
(* the a # 0 quantities live on the compressed sub-batch coeffs[~a_zero]   *)
(* and are written back through full-batch "_solutions" masks.             *)

mask_a_zero(cs) == [i \in 1..Len(cs) |-> cs[i][1] = 0]

mask_zero_orderAnyC(cs) ==
  [i \in 1..Len(cs) |-> cs[i][1] = 0 /\ cs[i][2] = 0]
mask_zero_order(cs) ==
  [i \in 1..Len(cs) |-> cs[i][1] = 0 /\ cs[i][2] = 0 /\ cs[i][3] = 0]

mask_first_order(cs) ==
  [i \in 1..Len(cs) |-> cs[i][1] = 0 /\ cs[i][2] = 0 /\ ~(cs[i][3] = 0)]

mask_second_order(cs) ==
  [i \in 1..Len(cs) |-> cs[i][1] = 0 /\ ~(cs[i][2] = 0) /\ ~(cs[i][3] = 0)]

\* whether the natural number n is a perfect cube, and its cube root
IsCube(n) == \E k \in 0..n : k * k * k = n

ICbrt(n) == CHOOSE k \in 0..n : k * k * k = n

\* torch.pow(x, 1/3) - t for rationals x, t: nan for a negative base
PowThirdMinus(x, t) ==
  IF RSign(x) < 0 THEN NaN
  ELSE IF IsCube(x[1]) /\ IsCube(x[2])
       THEN ValOfRat(RSub(<<ICbrt(x[1]), ICbrt(x[2])>>, t))
       ELSE <<"cbrt", x, t>>

\* R_abs > 1e-16: every nonzero rational with a denominator below 2^31
\* exceeds 1e-16 in magnitude, so on the model's numbers this is R_abs > 0
mask_R_positive(R) == RSign(RAbs(R)) > 0

\* the quantities of one element <<a, b, c, d>> with a # 0, in exact
\* arithmetic: with b_a = b/a, c_a = c/a, d_a = d/a,
\*   Q = (3 * c_a - b_a2) / 9                         = (3ac - b^2) / (9a^2)
\*   R = (9 * b_a * c_a - 27 * d_a - 2 * b_a * b_a2) / 54
\*                                    = (9abc - 27a^2 d - 2b^3) / (54a^3)
\*   D = Q3 + R * R                   = (4 qn^3 + rn^2) / (2916 a^6)
\*   b_a_3 = (1.0 / 3.0) * b_a                        = b / (3a)
\* where qn and rn are the numerators of Q and R above
Depressed(e) ==
  LET a  == e[1]
      b  == e[2]
      c  == e[3]
      d  == e[4]
      qn == 3 * a * c - b * b
      rn == 9 * a * b * c - 27 * a * a * d - 2 * b * b * b
      a3 == a * a * a
  IN  [Q     |-> Rat(qn, 9 * a * a),
       R     |-> Rat(rn, 54 * a3),
       D     |-> Rat(4 * qn * qn * qn + rn * rn, 2916 * a3 * a3),
       b_a_3 |-> Rat(b, 3 * a)]

\* x0_Q_zero = torch.pow(2 * R, 1/3) - b_a_3
X0QZero(x) == PowThirdMinus(RMul(RInt(2), x.R), x.b_a_3)

\* the row [-b_a_3, -b_a_3, -b_a_3]
RowQRZeroFirstOnly(x) == <<ValOfRat(RNeg(x.b_a_3))>>
RowQRZero(x) == [k \in 1..3 |-> ValOfRat(RNeg(x.b_a_3))]

\* the row [x0_D_zero, x1_D_zero, x2_D_zero]
RowDZero(x) == [k \in 1..3 |-> <<"trig", k - 1, x.Q, x.R, x.b_a_3>>]

\* x0_D_positive = AD + BD - b_a_3; AD and BD stay 0 where mask_R_positive
\* fails
X0DPositive(x) ==
  IF mask_R_positive(x.R)
  THEN <<"cardano", x.Q, x.R, x.D, x.b_a_3>>
  ELSE ValOfRat(RNeg(x.b_a_3))

\* the compressed sub-batch [~mask_a_zero] of Q, R, D, b_a_3
SubBatch(cs) ==
  LET nd == Compress(cs, MaskNot(mask_a_zero(cs)))
  IN  [i \in 1..Len(nd) |-> Depressed(nd[i])]

\* torch.ones_like(a) and torch.zeros_like(a), then [~mask_a_zero] = vals
OnesThenScatterFromZeros(az, vals) ==
  Scatter([i \in 1..Len(az) |-> RInt(0)], MaskNot(az), vals)
OnesThenScatter(az, vals) ==
  Scatter([i \in 1..Len(az) |-> RInt(1)], MaskNot(az), vals)

ZerosThenScatter(az, vals) ==
  Scatter([i \in 1..Len(az) |-> RInt(0)], MaskNot(az), vals)

\* the masks on the compressed sub-batch
mask_Q_zero(sb) ==
  [i \in 1..Len(sb) |-> RSign(sb[i].Q) = 0 /\ RSign(sb[i].R) # 0]

mask_QR_zero(sb) ==
  [i \in 1..Len(sb) |-> RSign(sb[i].Q) = 0 /\ RSign(sb[i].R) = 0]

mask_D_zero(sb) ==
  [i \in 1..Len(sb) |-> RSign(sb[i].D) <= 0 /\ RSign(sb[i].Q) # 0]

mask_D_positive(sb) ==
  [i \in 1..Len(sb) |-> RSign(sb[i].D) > 0 /\ RSign(sb[i].Q) # 0]

\* the same conditions as full-batch masks over a_Q_zero, a_R_zero, a_D_zero
\* and a_D_positive
mask_Q_zero_solutions(aQ, aR) ==
  [i \in 1..Len(aQ) |-> RSign(aQ[i]) = 0 /\ RSign(aR[i]) # 0]

mask_QR_zero_solutions(aQ, aR) ==
  [i \in 1..Len(aQ) |-> RSign(aQ[i]) = 0 /\ RSign(aR[i]) = 0]

mask_D_zero_solutions(aD, aQ) ==
  [i \in 1..Len(aQ) |-> RSign(aD[i]) <= 0 /\ RSign(aQ[i]) # 0]

mask_D_positive_solution(aDp, aQ) ==
  [i \in 1..Len(aQ) |-> RSign(aDp[i]) > 0 /\ RSign(aQ[i]) # 0]

\* coeffs[mask_second_order, 1:]
QuadraticPart(cs) ==
  LET sel == Compress(cs, mask_second_order(cs))
  IN  [i \in 1..Len(sel) |-> <<sel[i][2], sel[i][3], sel[i][4]>>]

\* the seven masked assignments, in source order
Branches ==
  <<"second_order", "first_order", "zero_order", "Q_zero", "QR_zero",
    "D_zero", "D_positive">>

\* everything solve_cubic computes from coeffs before it assigns: per
\* branch the condition of its if torch.any(...), the full-batch mask it
\* indexes solutions with, and the rows it assigns
CubicPlan(cs) ==
  LET az  == mask_a_zero(cs)
      sb  == SubBatch(cs)
      aQ  == OnesThenScatter(az, [i \in 1..Len(sb) |-> sb[i].Q])
      aR  == OnesThenScatter(az, [i \in 1..Len(sb) |-> sb[i].R])
      aD  == OnesThenScatter(az, [i \in 1..Len(sb) |-> sb[i].D])
      aDp == ZerosThenScatter(az, [i \in 1..Len(sb) |-> sb[i].D])
      qz  == Compress(sb, mask_Q_zero(sb))
      qr  == Compress(sb, mask_QR_zero(sb))
      dz  == Compress(sb, mask_D_zero(sb))
      dp  == Compress(sb, mask_D_positive(sb))
  IN  [second_order |->
         [guard |-> MaskAny(mask_second_order(cs)),
          mask  |-> mask_second_order(cs),
          rows  |-> SolveQuadratic(QuadraticPart(cs))],
       first_order |->
         [guard |-> MaskAny(mask_first_order(cs)),
          mask  |-> mask_first_order(cs),
          rows  |-> <<<<One>>>>],
       zero_order |->
         [guard |-> MaskAny(mask_zero_order(cs)),
          mask  |-> mask_zero_order(cs),
          rows  |-> <<<<Zero>>>>],
       Q_zero |->
         [guard |-> MaskAny(mask_Q_zero(sb)),
          mask  |-> mask_Q_zero_solutions(aQ, aR),
          rows  |-> [i \in 1..Len(qz) |-> <<X0QZero(qz[i])>>]],
       QR_zero |->
         [guard |-> MaskAny(mask_QR_zero(sb)),
          mask  |-> mask_QR_zero_solutions(aQ, aR),
          rows  |-> [i \in 1..Len(qr) |-> RowQRZero(qr[i])]],
       D_zero |->
         [guard |-> MaskAny(mask_D_zero(sb)),
          mask  |-> mask_D_zero_solutions(aD, aQ),
          rows  |-> [i \in 1..Len(dz) |-> RowDZero(dz[i])]],
       D_positive |->
         [guard |-> MaskAny(mask_D_positive(sb)),
          mask  |-> mask_D_positive_solution(aDp, aQ),
          rows  |-> [i \in 1..Len(dp) |-> <<X0DPositive(dp[i])>>]]]

\* the number of leading slots of a row the branch assigns
BranchWidth(br) ==
  CASE br \in {"QR_zero", "D_zero"} -> 3
    [] br = "second_order" -> 2
    [] OTHER -> 1

\* one branch b = [guard, mask, rows] applied to a run [err, sol]: err when
\* torch rejects the masked assignment for a shape mismatch (RuntimeError)
BranchApply(b, run) ==
  IF run.err \/ ~b.guard THEN run
  ELSE IF ~ScatterFits(b.mask, b.rows)
       THEN [err |-> TRUE, sol |-> run.sol]
       ELSE [err |-> FALSE, sol |-> AssignRows(run.sol, b.mask, b.rows)]

\* solutions = torch.zeros((len(coeffs), 3))
ZeroSolutions(cs) == [i \in 1..Len(cs) |-> <<Zero, Zero, Zero>>]

RECURSIVE ApplyBranches(_, _, _)
ApplyBranches(brs, plan, run) ==
  IF brs = <<>> THEN run
  ELSE ApplyBranches(Tail(brs), plan, BranchApply(plan[Head(brs)], run))

\* solve_cubic(coeffs): the tensor it returns
SolveCubic(cs) ==
  ApplyBranches(Branches, CubicPlan(cs),
                [err |-> FALSE, sol |-> ZeroSolutions(cs)]).sol

(* ------------------------------- state --------------------------------- *)

VARIABLES
  pc,          \* position in the operation in progress
  coeffs,      \* solver input: a batch of coefficient tuples
  solutions,   \* solver output tensor, one row per batch element
  written,     \* per row: the <<branch, slot>> assignments made to it
  M,           \* the matrix handed to normalize_transformation
  eps,         \* its eps argument
  normalized,  \* the results of its successive applications
  method,      \* find_fundamental's selector, a sequence of characters
  points1,     \* shape of the first point set
  points2,     \* shape of the second point set
  weights,     \* [given, shape] of the weight tensor
  callee,      \* the functions entered, in call order
  work,        \* the numerical stages performed, in order
  cubic,       \* the cubic coefficients run_7point computed
  result,      \* the number of 3x3 matrices returned
  outcome      \* "none", "returned" or the exception raised

polyVars == <<coeffs, solutions, written>>

normVars == <<M, eps, normalized>>

estVars == <<method, points1, points2, weights, callee, work, cubic, result>>

vars == <<pc, polyVars, normVars, estVars, outcome>>

Init ==
  /\ pc = "idle"
  /\ coeffs = <<>>
  /\ solutions = <<>>
  /\ written = <<>>
  /\ M = <<>>
  /\ eps = RInt(0)
  /\ normalized = <<>>
  /\ method = <<>>
  /\ points1 = <<>>
  /\ points2 = <<>>
  /\ weights = [given |-> FALSE, shape |-> <<>>]
  /\ callee = <<>>
  /\ work = <<>>
  /\ cubic = <<>>
  /\ result = 0
  /\ outcome = "none"

(* ------------------------- solver inputs ------------------------------- *)

CoefRange == -MaxCoef..MaxCoef

\* every sequence over S of length 1..n
Batches(S, n) == UNION {[1..k -> S] : k \in 1..n}

\* one quadratic per case: two rational roots, negative and zero
\* discriminant, a = 0, irrational roots
QuadReps ==
  {<<1, -3, 2>>, <<1, 2, 5>>, <<1, 2, 1>>, <<0, 1, 1>>, <<2, 0, -1>>}

QuadInputs ==
  {<<e>> : e \in CoefRange \X CoefRange \X CoefRange}
    \cup Batches(QuadReps, MaxBatch)

\* one cubic or more per branch, and the a = 0, b # 0, c = 0 element
CubicReps ==
  {<<0, 0, 0, 1>>, <<0, 0, 2, 1>>, <<0, 1, -3, 2>>, <<0, 1, 1, 1>>,
   <<0, 1, 0, -1>>, <<1, 0, 0, -1>>, <<1, 0, 0, 1>>, <<1, 3, 3, 1>>,
   <<1, -6, 11, -6>>, <<1, 0, 1, 1>>, <<2, 0, 2, 0>>}

CubicInputs ==
  {<<e>> : e \in CoefRange \X CoefRange \X CoefRange \X CoefRange}
    \cup Batches(CubicReps, MaxBatch)

(* ------------------------ solver operations ---------------------------- *)

\* a caller invokes solve_quadratic(coeffs)
CallSolveQuadratic ==
  /\ pc = "idle"
  /\ \E cs \in QuadInputs : coeffs' = cs
  /\ pc' = "solve_quadratic"
  /\ UNCHANGED <<solutions, written, normVars, estVars, outcome>>

\* solve_quadratic runs and returns its solution tensor
ReturnSolveQuadratic ==
  /\ pc = "solve_quadratic"
  /\ solutions' = SolveQuadratic(coeffs)
  /\ pc' = "quadratic_done"
  /\ outcome' = "returned"
  /\ UNCHANGED <<coeffs, written, normVars, estVars>>

\* a caller invokes solve_cubic(coeffs); solutions is allocated as zeros
CallSolveCubic ==
  /\ pc = "idle"
  /\ \E cs \in CubicInputs :
       /\ coeffs' = cs
       /\ solutions' = ZeroSolutions(cs)
       /\ written' = [i \in 1..Len(cs) |-> {}]
  /\ pc' = "second_order"
  /\ UNCHANGED <<normVars, estVars, outcome>>

\* one masked assignment of solve_cubic, then on to the next position
CubicBranch(br, next) ==
  /\ pc = br
  /\ LET b   == CubicPlan(coeffs)[br]
         run == BranchApply(b, [err |-> FALSE, sol |-> solutions])
         hit == [i \in 1..Len(coeffs) |-> b.guard /\ b.mask[i]]
     IN  IF run.err
         THEN /\ pc' = "cubic_done"
              /\ outcome' = "RuntimeError"
              /\ UNCHANGED <<solutions, written>>
         ELSE /\ solutions' = run.sol
              /\ written' =
                   [i \in 1..Len(coeffs) |->
                      written[i] \cup
                        (IF hit[i]
                         THEN {<<br, k>> : k \in 1..BranchWidth(br)}
                         ELSE {})]
              /\ pc' = next
              /\ outcome' = IF next = "cubic_done" THEN "returned" ELSE outcome
  /\ UNCHANGED <<coeffs, normVars, estVars>>

Cubic_second_order == CubicBranch("second_order", "first_order")

Cubic_first_order == CubicBranch("first_order", "zero_order")

Cubic_zero_order == CubicBranch("zero_order", "Q_zero")

Cubic_Q_zero == CubicBranch("Q_zero", "QR_zero")

Cubic_QR_zero == CubicBranch("QR_zero", "D_zero")

Cubic_D_zero == CubicBranch("D_zero", "D_positive")

Cubic_D_positive == CubicBranch("D_positive", "cubic_done")

NextPoly ==
  \/ CallSolveQuadratic
  \/ ReturnSolveQuadratic
  \/ CallSolveCubic
  \/ Cubic_second_order
  \/ Cubic_first_order
  \/ Cubic_zero_order
  \/ Cubic_Q_zero
  \/ Cubic_QR_zero
  \/ Cubic_D_zero
  \/ Cubic_D_positive

SpecPoly == Init /\ [][NextPoly]_vars

(* --------------------- properties of solve_quadratic ------------------- *)

\* (-b + sg * sqrt(delta)) / (2a) written out for one element with
\* delta > 0: an element of the quadratic field when a # 0, and what IEEE
\* division by 2a = 0 leaves otherwise
ClosedFormRoot(e, sg) ==
  LET delta == QuadDelta(e)
      k     == CHOOSE j \in 1..delta :
                 /\ delta % (j * j) = 0
                 /\ \A l \in (j + 1)..delta : delta % (l * l) # 0
      num   == -e[2] + sg * Abs(e[2])
  IN  IF e[1] # 0 THEN Surd(-e[2], sg * k, delta \div (k * k), 2 * e[1])
      ELSE IF num = 0 THEN NaN
      ELSE Inf(Sign(num))

QuadraticDone == pc = "quadratic_done"

\* C4: every element of solve_quadratic with b^2 - 4ac > 0 gets
\* (-b + sqrt(disc))/(2a) in slot 0 and (-b - sqrt(disc))/(2a) in slot 1, and
\* the coefficients [1, -3, 2] yield the roots 2 and 1
C4_PositiveDiscriminantRoots ==
  QuadraticDone =>
    \A i \in 1..Len(coeffs) :
      /\ QuadDelta(coeffs[i]) > 0 =>
           /\ solutions[i][1] = ClosedFormRoot(coeffs[i], 1)
           /\ solutions[i][2] = ClosedFormRoot(coeffs[i], -1)
      /\ coeffs[i] = <<1, -3, 2>> =>
           solutions[i] = <<ValOfInt(2), ValOfInt(1)>>

\* solve_quadratic has returned 2 and 1 for [1, -3, 2] and a pair of
\* irrational roots for another element of the same batch
C4_Witness ==
  /\ QuadraticDone
  /\ \E i, j \in 1..Len(coeffs) :
       /\ coeffs[i] = <<1, -3, 2>>
       /\ solutions[i] = <<ValOfInt(2), ValOfInt(1)>>
       /\ coeffs[j] = <<2, 0, -1>>
       /\ solutions[j] = <<Surd(0, 1, 2, 2), Surd(0, -1, 2, 2)>>

CubicDone == pc = "cubic_done" /\ outcome = "returned"

\* the branches that have written into row i
BranchesOf(i) == {w[1] : w \in written[i]}

\* C3: every element of solve_cubic with a = 0 and b # 0, for any c and d,
\* holds the two roots solve_quadratic gives for (b, c, d) in its first two
\* slots and 0 in its third
C3_QuadraticDelegation ==
  CubicDone =>
    \A i \in 1..Len(coeffs) :
      (coeffs[i][1] = 0 /\ coeffs[i][2] # 0) =>
        LET q == SolveQuadratic(
                   <<<<coeffs[i][2], coeffs[i][3], coeffs[i][4]>>>>)[1]
        IN  solutions[i] = <<q[1], q[2], Zero>>

\* C9: at most one of the seven branches writes into the row of any batch
\* element, and every slot of the returned row that the branch did not
\* write is 0
C9_BranchesExclusive ==
  /\ \A i \in 1..Len(written) : Cardinality(BranchesOf(i)) <= 1
  /\ CubicDone =>
       \A i \in 1..Len(coeffs) : \A k \in 1..3 :
         (\A br \in BranchesOf(i) : <<br, k>> \notin written[i]) =>
           solutions[i][k] = Zero

\* solve_cubic has returned a batch in which one row was written in full by
\* the D <= 0 branch and one in its first slot only by the first-order
\* branch
C9_Witness ==
  /\ CubicDone
  /\ \E i, j \in 1..Len(coeffs) :
       /\ BranchesOf(i) = {"D_zero"}
       /\ written[i] = {<<"D_zero", k>> : k \in 1..3}
       /\ BranchesOf(j) = {"first_order"}
       /\ solutions[j] = <<One, Zero, Zero>>

\* C10: the row solve_cubic returns for element i is the row it returns for
\* element i alone, for every mix and order of a = 0 and a # 0 elements, and
\* no masked assignment is rejected for a count mismatch
C10_ElementsIndependent ==
  /\ outcome # "RuntimeError"
  /\ CubicDone =>
       \A i \in 1..Len(coeffs) :
         solutions[i] = SolveCubic(<<coeffs[i]>>)[1]

\* solve_cubic has returned a batch in which an a = 0 element precedes an
\* a # 0 element, so that the row of the latter is not at the same position
\* in the compressed sub-batch, and its triple root was scattered back
C10_Witness ==
  /\ CubicDone
  /\ Len(coeffs) = 2
  /\ coeffs[1][1] = 0
  /\ BranchesOf(1) = {"second_order"}
  /\ BranchesOf(2) = {"QR_zero"}
  /\ solutions[2] = <<ValOfInt(-1), ValOfInt(-1), ValOfInt(-1)>>

\* the slots of row i that a branch has written
SlotsOf(i) == {w[2] : w \in written[i]}

\* the signs of Q, R and D of one element <<a, b, c, d>> with a # 0, from
\* the integers 3ac - b^2, 9abc - 27a^2 d - 2b^3 times the sign of a, and
\* 4(3ac - b^2)^3 + (9abc - 27a^2 d - 2b^3)^2
SignQ(e) == Sign(3 * e[1] * e[3] - e[2] * e[2])

SignR(e) ==
  Sign(e[1]) *
    Sign(9 * e[1] * e[2] * e[3] - 27 * e[1] * e[1] * e[4]
           - 2 * e[2] * e[2] * e[2])

SignD(e) ==
  LET qn == 3 * e[1] * e[3] - e[2] * e[2]
      rn == 9 * e[1] * e[2] * e[3] - 27 * e[1] * e[1] * e[4]
              - 2 * e[2] * e[2] * e[2]
  IN  Sign(4 * qn * qn * qn + rn * rn)

\* C11: for an element of solve_cubic with a # 0, Q = 0 and R = 0 give
\* -b/(3a) in all three slots; Q = 0 and R # 0, or D > 0 and Q # 0, write
\* the first slot only and leave slots 1 and 2 at 0; D <= 0 and Q # 0
\* write all three slots
C11_SlotsPerBranch ==
  CubicDone =>
    \A i \in 1..Len(coeffs) :
      coeffs[i][1] # 0 =>
        LET e == coeffs[i]
            t == ValOfRat(Rat(-e[2], 3 * e[1]))
        IN  /\ (SignQ(e) = 0 /\ SignR(e) = 0) => solutions[i] = <<t, t, t>>
            /\ ((SignQ(e) = 0 /\ SignR(e) # 0)
                  \/ (SignD(e) > 0 /\ SignQ(e) # 0)) =>
                 /\ SlotsOf(i) = {1}
                 /\ solutions[i][2] = Zero
                 /\ solutions[i][3] = Zero
            /\ (SignD(e) <= 0 /\ SignQ(e) # 0) => SlotsOf(i) = {1, 2, 3}

\* solve_cubic has returned (x + 1)^3 with the triple root -1 next to
\* x^3 + x + 1, whose row has its first slot written and the others 0
C11_Witness ==
  /\ CubicDone
  /\ coeffs = <<<<1, 3, 3, 1>>, <<1, 0, 1, 1>>>>
  /\ solutions[1] = <<ValOfInt(-1), ValOfInt(-1), ValOfInt(-1)>>
  /\ SlotsOf(2) = {1}
  /\ solutions[2][1] # Zero
  /\ solutions[2][2] = Zero
  /\ solutions[2][3] = Zero

\* C12: an element of solve_cubic with a = b = c = 0 gets the row (0, 0, 0)
\* for any d, and an element with a = b = 0 and c # 0 gets the row
\* (1, 0, 0) whatever c and d are
C12_DegenerateRows ==
  CubicDone =>
    \A i \in 1..Len(coeffs) :
      (coeffs[i][1] = 0 /\ coeffs[i][2] = 0) =>
        solutions[i] = IF coeffs[i][3] = 0 THEN <<Zero, Zero, Zero>>
                       ELSE <<One, Zero, Zero>>

\* solve_cubic has returned (1, 0, 0) for 2x + 1 = 0, whose root is -1/2,
\* and (0, 0, 0) for the constant 1
C12_Witness ==
  /\ CubicDone
  /\ coeffs = <<<<0, 0, 2, 1>>, <<0, 0, 0, 1>>>>
  /\ solutions = <<<<One, Zero, Zero>>, <<Zero, Zero, Zero>>>>
  /\ BranchesOf(1) = {"first_order"}
  /\ BranchesOf(2) = {"zero_order"}

(* ----------------------- normalize_transformation ---------------------- *)
(* A tensor is [shape, rows]; a matrix has one row of entries per row and  *)
(* a 1-D tensor has a single row.                                          *)

\* norm_val = M[..., -1:, -1:]
NormVal(rows) == rows[Len(rows)][Len(rows[Len(rows)])]

\* torch.where(norm_val.abs() > eps, M / (norm_val + eps), M): a new tensor.
\* Where the condition fails torch.where discards the quotient, so a zero
\* divisor there has no effect on the result.
NormalizeTransformationNoEps(rows, e) ==
  LET norm_val == NormVal(rows)
  IN  IF RLt(e, RAbs(norm_val))
      THEN [i \in 1..Len(rows) |->
              [j \in 1..Len(rows[i]) |-> RDiv(rows[i][j], norm_val)]]
      ELSE rows
NormalizeTransformation(rows, e) ==
  LET norm_val == NormVal(rows)
      divisor  == RAdd(norm_val, e)
  IN  IF RLt(e, RAbs(norm_val))
      THEN [i \in 1..Len(rows) |->
              [j \in 1..Len(rows[i]) |-> RDiv(rows[i][j], divisor)]]
      ELSE rows

\* what the call leaves in the argument tensor: the division and torch.where
\* both allocate their result
ArgumentAfterNormalize(m, e) == m

\* eps is an argument (default 1e-8); the values tried keep the numerators
\* and denominators of a twice-normalized matrix within TLC's integers, and
\* with eps = 1 a normalized bottom-right entry can fall back under eps
EpsChoices == {Rat(1, 1000), Rat(1, 10), RInt(1)}

\* bottom-right entries: integers, multiples of eps (so that the magnitude
\* equals eps exactly), and 1 - eps
BottomRights(e) ==
  {RInt(n) : n \in -MaxEntry..MaxEntry}
    \cup {RMul(RInt(n), e) : n \in -MaxEntry..MaxEntry}
    \cup {RSub(RInt(1), e)}

Entries == {RInt(n) : n \in -MaxEntry..MaxEntry}

NormalizeInputs(e) ==
  {[shape |-> <<2, 2>>, rows |-> <<<<x, y>>, <<z, br>>>>] :
     x \in Entries, y \in Entries, z \in Entries, br \in BottomRights(e)}
    \cup {[shape |-> <<2>>, rows |-> <<<<x, br>>>>] :
            x \in Entries, br \in BottomRights(e)}

\* a caller invokes normalize_transformation(M, eps)
CallNormalizeTransformation ==
  /\ pc = "idle"
  /\ \E e \in EpsChoices : \E m \in NormalizeInputs(e) :
       /\ eps' = e
       /\ M' = m
  /\ pc' = "normalize_transformation"
  /\ UNCHANGED <<normalized, polyVars, estVars, outcome>>

\* normalize_transformation runs: the shape check, then the result
ReturnNormalizeTransformation ==
  /\ pc = "normalize_transformation"
  /\ IF Len(M.shape) < 2
     THEN /\ outcome' = "AssertionError"
          /\ pc' = "normalize_rejected"
          /\ UNCHANGED <<M, normalized>>
     ELSE /\ normalized' = <<NormalizeTransformation(M.rows, eps)>>
          /\ M' = ArgumentAfterNormalize(M, eps)
          /\ outcome' = "returned"
          /\ pc' = "normalized"
  /\ UNCHANGED <<eps, polyVars, estVars>>

\* the caller hands the result to normalize_transformation again
NormalizeAgain ==
  /\ pc = "normalized"
  /\ normalized' =
       Append(normalized, NormalizeTransformation(normalized[1], eps))
  /\ pc' = "renormalized"
  /\ UNCHANGED <<M, eps, polyVars, estVars, outcome>>

NextNorm ==
  \/ CallNormalizeTransformation
  \/ ReturnNormalizeTransformation
  \/ NormalizeAgain

SpecNorm == Init /\ [][NextNorm]_vars

(* ----------------- properties of normalize_transformation -------------- *)

\* the magnitude of x is strictly greater than e
MagnitudeExceeds(x, e) == RLt(e, x) \/ RLt(x, RNeg(e))

\* every entry of out, times d, is the entry of rows at the same place
DividedBy(out, rows, d) ==
  /\ Len(out) = Len(rows)
  /\ \A i \in 1..Len(rows) :
       /\ Len(out[i]) = Len(rows[i])
       /\ \A j \in 1..Len(rows[i]) : RMul(out[i][j], d) = rows[i][j]

C6_Returned ==
  pc \in {"normalized", "renormalized"} =>
    IF MagnitudeExceeds(NormVal(M.rows), eps)
    THEN DividedBy(normalized[1], M.rows, RAdd(NormVal(M.rows), eps))
    ELSE normalized[1] = M.rows

\* C6: normalize_transformation divides every entry by (bottom-right entry
\* + eps) exactly when the bottom-right entry's magnitude is strictly
\* greater than eps, otherwise returns every entry unchanged, and in both
\* cases leaves its argument as it was
C6_DividesAboveThreshold ==
  /\ []C6_Returned
  /\ [][pc = "normalize_transformation" => M' = M]_vars

\* normalize_transformation has divided a matrix whose bottom-right entry
\* is 2 * eps: the result differs from the argument and its bottom-right
\* entry is 2/3, not 1
C6_Witness ==
  /\ pc = "normalized"
  /\ NormVal(M.rows) = RMul(RInt(2), eps)
  /\ M.rows[1][1] # RInt(0)
  /\ normalized[1] # M.rows
  /\ NormVal(normalized[1]) = Rat(2, 3)

UpperChar(c) ==
  CASE c = "p" -> "P"
    [] c = "o" -> "O"
    [] c = "i" -> "I"
    [] c = "n" -> "N"
    [] c = "t" -> "T"
    [] c = "s" -> "S"
    [] OTHER -> c

AsWritten(str) == str
Upper(str) == [i \in 1..Len(str) |-> UpperChar(str[i])]

Str7POINT == <<"7", "P", "O", "I", "N", "T">>

Str8POINT == <<"8", "P", "O", "I", "N", "T">>

\* the branch find_fundamental takes on a selector
Dispatch(m) ==
  IF Upper(m) = Str7POINT THEN "run_7point"
  ELSE IF Upper(m) = Str8POINT THEN "run_8point"
  ELSE "ValueError"

\* the parameters of solve_cubic
SolveCubicParams == <<"coeffs">>

\* whether a call with these positional arguments binds to the parameters
Binds(params, args) == Len(args) = Len(params)

\* whether two batch sizes broadcast against each other
Broadcastable(b1, b2) == b1 = b2 \/ b1 = 1 \/ b2 = 1

Max(x, y) == IF x < y THEN y ELSE x

\* KORNIA_CHECK_SHAPE(points, ['B', '7', '2'])
CheckShapeB72(shape) == Len(shape) = 3 /\ shape[2] = 7 /\ shape[3] = 2

\* the two shape assertions of normalize_points
NormalizePointsAccepts(shape) == Len(shape) = 3 /\ shape[Len(shape)] = 2

\* the checks run_8point makes on entry, in order: "ok" or the exception
Run8PreconditionNoWeights(p1, p2, w) ==
  IF p1 # p2 THEN "AssertionError"
  ELSE IF Len(p1) < 2 THEN "IndexError"
  ELSE IF p1[2] < 8 THEN "AssertionError"
  ELSE "ok"
Run8Precondition(p1, p2, w) ==
  IF p1 # p2 THEN "AssertionError"
  ELSE IF Len(p1) < 2 THEN "IndexError"
  ELSE IF p1[2] < 8 THEN "AssertionError"
  ELSE IF w.given /\ ~(Len(w.shape) = 2 /\ w.shape[2] = p1[2])
       THEN "AssertionError"
  ELSE "ok"

(* ------------------------- estimator inputs ---------------------------- *)

\* the two spellings of each character of the selectors
Spellings(c) ==
  CASE c = "P" -> {"P", "p"}
    [] c = "O" -> {"O", "o"}
    [] c = "I" -> {"I", "i"}
    [] c = "N" -> {"N", "n"}
    [] c = "T" -> {"T", "t"}
    [] OTHER -> {c}

CaseVariants(str) ==
  {v \in [1..Len(str) -> UNION {Spellings(str[i]) : i \in 1..Len(str)}] :
     \A i \in 1..Len(str) : v[i] \in Spellings(str[i])}

\* selectors that are neither "7POINT" nor "8POINT" in any case
OtherSelectors ==
  {<<>>,
   <<"7", "P", "O", "I", "N">>,
   <<"7", "p", "o", "i", "n", "t", "s">>,
   <<"9", "P", "O", "I", "N", "T">>,
   <<"P", "O", "I", "N", "T", "7">>,
   <<"8", " ", "P", "O", "I", "N", "T">>,
   <<"8", "P", "O", "I", "N", "T", " ">>,
   <<"7">>,
   <<"8">>}

Selectors == CaseVariants(Str7POINT) \cup CaseVariants(Str8POINT)
               \cup OtherSelectors

\* shapes of point sets: [B, N, D] and shapes of other ranks
PointShapes ==
  {<<b, n, d>> : b \in 1..MaxB, n \in 7..MaxN, d \in {2, 3}}
    \cup {<<MaxN, 2>>, <<MaxB, MaxN>>, <<MaxN>>}

\* no weights, weights of shape [B, N], and weights of other ranks
WeightChoices ==
  {[given |-> FALSE, shape |-> <<>>]}
    \cup {[given |-> TRUE, shape |-> <<b, n>>] : b \in 1..MaxB, n \in 7..MaxN}
    \cup {[given |-> TRUE, shape |-> <<MaxN>>],
          [given |-> TRUE, shape |-> <<1, MaxN, 1>>]}

\* what find_fundamental is called with besides the selector
DispatchCases ==
  {<<<<1, 7, 2>>, <<1, 7, 2>>>>, <<<<1, MaxN, 2>>, <<1, MaxN, 2>>>>,
   <<<<1, MaxN, 2>>, <<1, 7, 2>>>>}

(* ------------------------ estimator operations ------------------------- *)

\* a caller invokes find_fundamental(points1, points2, weights, method)
CallFindFundamental ==
  /\ pc = "idle"
  /\ \E m \in Selectors : \E ps \in DispatchCases :
     \E w \in {x \in WeightChoices : ~x.given \/ x.shape = <<1, MaxN>>} :
       /\ method' = m
       /\ points1' = ps[1]
       /\ points2' = ps[2]
       /\ weights' = w
  /\ callee' = <<"find_fundamental">>
  /\ pc' = "find_fundamental"
  /\ UNCHANGED <<work, cubic, result, outcome, polyVars, normVars>>

\* find_fundamental compares method.upper() and calls the estimator, or
\* raises ValueError
FindFundamental ==
  /\ pc = "find_fundamental"
  /\ LET to == Dispatch(method)
     IN  IF to = "ValueError"
         THEN /\ outcome' = "ValueError"
              /\ pc' = "est_done"
              /\ UNCHANGED <<callee, weights>>
         ELSE /\ callee' = Append(callee, to)
              /\ pc' = to
              \* run_7point is called without the weights
              /\ weights' = IF to = "run_7point"
                            THEN [given |-> FALSE, shape |-> <<>>]
                            ELSE weights
              /\ UNCHANGED outcome
  /\ UNCHANGED <<method, points1, points2, work, cubic, result,
                 polyVars, normVars>>

\* a caller invokes run_8point(points1, points2, weights)
CallRun8point ==
  /\ pc = "idle"
  /\ \E p1 \in PointShapes : \E p2 \in PointShapes : \E w \in WeightChoices :
       /\ points1' = p1
       /\ points2' = p2
       /\ weights' = w
  /\ callee' = <<"run_8point">>
  /\ pc' = "run_8point"
  /\ UNCHANGED <<method, work, cubic, result, outcome, polyVars, normVars>>

\* run_8point's checks on entry
Run8Check ==
  /\ pc = "run_8point"
  /\ LET verdict == Run8Precondition(points1, points2, weights)
     IN  IF verdict = "ok"
         THEN /\ pc' = "run_8point_normalize"
              /\ UNCHANGED outcome
         ELSE /\ outcome' = verdict
              /\ pc' = "est_done"
  /\ UNCHANGED <<method, points1, points2, weights, callee, work, cubic,
                 result, polyVars, normVars>>

\* normalize_points(points1) and normalize_points(points2): each asserts
\* the shape before it computes
Run8Normalize ==
  /\ pc = "run_8point_normalize"
  /\ IF ~NormalizePointsAccepts(points1)
     THEN /\ outcome' = "AssertionError"
          /\ pc' = "est_done"
          /\ UNCHANGED work
     ELSE IF ~NormalizePointsAccepts(points2)
     THEN /\ outcome' = "AssertionError"
          /\ pc' = "est_done"
          /\ work' = Append(work, "normalize_points")
     ELSE /\ work' = work \o <<"normalize_points", "normalize_points">>
          /\ pc' = "run_8point_solve"
          /\ UNCHANGED outcome
  /\ UNCHANGED <<method, points1, points2, weights, callee, cubic, result,
                 polyVars, normVars>>

\* the system X, the weighting, the two SVDs, the rank-2 projection, the
\* un-normalization and normalize_transformation: one matrix per batch
\* element, the batch size of the weights broadcasting against B
Run8Solve ==
  /\ pc = "run_8point_solve"
  /\ IF weights.given /\ ~Broadcastable(points1[1], weights.shape[1])
     THEN /\ work' = work \o <<"assemble">>
          /\ outcome' = "RuntimeError"
          /\ UNCHANGED result
     ELSE /\ work' = work \o <<"assemble", "weigh", "svd", "svd", "project",
                               "unnormalize", "normalize_transformation">>
          /\ result' = IF weights.given
                       THEN Max(points1[1], weights.shape[1])
                       ELSE points1[1]
          /\ outcome' = "returned"
  /\ pc' = "est_done"
  /\ UNCHANGED <<method, points1, points2, weights, callee, cubic,
                 polyVars, normVars>>

\* a caller invokes run_7point(points1, points2)
CallRun7point ==
  /\ pc = "idle"
  /\ \E p1 \in PointShapes : \E p2 \in PointShapes :
       /\ points1' = p1
       /\ points2' = p2
  /\ callee' = <<"run_7point">>
  /\ pc' = "run_7point"
  /\ UNCHANGED <<method, weights, work, cubic, result, outcome,
                 polyVars, normVars>>

\* run_7point up to the cubic: the shape checks, the normalization, the
\* system X, its SVD and the four coefficients of det(lambda*f1 +
\* (1 - lambda)*f2), which depend on the points through the SVD
Run7System ==
  /\ pc = "run_7point"
  /\ IF ~(CheckShapeB72(points1) /\ CheckShapeB72(points2))
     THEN /\ outcome' = "ShapeError"
          /\ pc' = "est_done"
          /\ UNCHANGED <<work, cubic>>
     ELSE IF ~Broadcastable(points1[1], points2[1])
     THEN /\ work' = <<"normalize_points", "normalize_points">>
          /\ outcome' = "RuntimeError"
          /\ pc' = "est_done"
          /\ UNCHANGED cubic
     ELSE /\ work' = <<"normalize_points", "normalize_points", "assemble",
                       "svd">>
          /\ \E c \in CubicReps : cubic' = c
          /\ pc' = "run_7point_solve"
          /\ UNCHANGED outcome
  /\ UNCHANGED <<method, points1, points2, weights, callee, result,
                 polyVars, normVars>>

\* roots = solve_cubic(*coeffs): the tensor of four coefficients unpacks
\* into four positional arguments.  Were the call to bind, its one argument
\* would be a 0-d tensor, which solve_cubic cannot index as coeffs[:, 0].
Run7Solve ==
  /\ pc = "run_7point_solve"
  /\ outcome' = IF ~Binds(SolveCubicParams, cubic) THEN "TypeError"
                ELSE "IndexError"
  /\ pc' = "est_done"
  /\ UNCHANGED <<method, points1, points2, weights, callee, work, cubic,
                 result, polyVars, normVars>>

NextEst ==
  \/ CallFindFundamental
  \/ FindFundamental
  \/ CallRun8point
  \/ Run8Check
  \/ Run8Normalize
  \/ Run8Solve
  \/ CallRun7point
  \/ Run7System
  \/ Run7Solve

SpecEst == Init /\ [][NextEst]_vars

(* --------------------- properties of the estimators -------------------- *)

Entered(f) == \E i \in 1..Len(callee) : callee[i] = f

\* both point sets have the shape [B, 7, 2] with the same B
WellFormedSevenPoints ==
  /\ points1 = points2
  /\ Len(points1) = 3
  /\ points1[2] = 7
  /\ points1[3] = 2

\* the number of root slots solve_cubic fills for the cubic c
RootsFound(c) ==
  LET plan == CubicPlan(<<c>>)
      hit  == {i \in 1..Len(Branches) :
                 plan[Branches[i]].guard /\ plan[Branches[i]].mask[1]}
  IN  IF hit = {} THEN 0 ELSE BranchWidth(Branches[CHOOSE i \in hit : TRUE])

\* C1: on two point sets of shape [B, 7, 2] run_7point completes and
\* returns m matrices, m in {1, 2, 3} and equal to the number of real
\* roots found for the cubic
C1_SevenPointReturnsCandidates ==
  (pc = "est_done" /\ Entered("run_7point") /\ WellFormedSevenPoints) =>
    /\ outcome = "returned"
    /\ result \in 1..3
    /\ result = RootsFound(cubic)

\* two strings are equal up to the case of their letters
SameLetter(c, d) == c = d \/ d \in Spellings(c) \/ c \in Spellings(d)

EqualIgnoringCase(str, target) ==
  /\ Len(str) = Len(target)
  /\ \A i \in 1..Len(str) : SameLetter(target[i], str[i])

\* C2: find_fundamental enters run_7point when method is "7POINT" in any
\* case, run_8point when it is "8POINT" in any case, and for any other
\* method raises ValueError without entering an estimator, doing any work
\* or returning a result
C2_DispatchBySelector ==
  (Entered("find_fundamental") /\ pc # "find_fundamental") =>
    IF EqualIgnoringCase(method, Str7POINT)
    THEN Len(callee) = 2 /\ callee[2] = "run_7point"
    ELSE IF EqualIgnoringCase(method, Str8POINT)
    THEN Len(callee) = 2 /\ callee[2] = "run_8point"
    ELSE /\ callee = <<"find_fundamental">>
         /\ pc = "est_done"
         /\ outcome = "ValueError"
         /\ work = <<>>
         /\ result = 0

\* find_fundamental has been called with "8pOiNt" and run_8point has
\* returned one matrix
C2_Witness ==
  /\ method = <<"8", "p", "O", "i", "N", "t">>
  /\ callee = <<"find_fundamental", "run_8point">>
  /\ pc = "est_done"
  /\ outcome = "returned"
  /\ result = 1

\* a call run_8point must reject: the shapes differ, N < 8, or the weights
\* are not [_, N]
Rejectable ==
  \/ points1 # points2
  \/ Len(points1) >= 2 /\ points1[2] < 8
  \/ /\ Len(points1) >= 2
     /\ weights.given
     /\ \/ Len(weights.shape) # 2
        \/ weights.shape[Len(weights.shape)] # points1[2]

\* C8: run_8point raises AssertionError on every call whose point sets
\* differ in shape, whose N is below 8 or whose weights do not have length
\* N, and does so with no normalization, system assembly or SVD done and no
\* result returned
C8_RejectsBeforeWork ==
  (Entered("run_8point") /\ Rejectable) =>
    /\ work = <<>>
    /\ result = 0
    /\ pc \in {"run_8point", "est_done"}
    /\ pc = "est_done" => outcome = "AssertionError"

\* run_8point has rejected a call whose point sets are both [2, 8, 2] and
\* whose weights are [2, 7]
C8_Witness ==
  /\ callee = <<"run_8point">>
  /\ points1 = <<2, 8, 2>>
  /\ points2 = <<2, 8, 2>>
  /\ weights = [given |-> TRUE, shape |-> <<2, 7>>]
  /\ pc = "est_done"
  /\ outcome = "AssertionError"
  /\ work = <<>>

====
